---- MODULE Spec2Model ----
(***************************************************************************)
(* Model of pr_conflict_check.py: main() and detect_conflicts() driving    *)
(* one shared git working repository through n*(n-1) pairwise merge        *)
(* trials.  The git commands are the environment: each one is a step whose *)
(* outcome is chosen nondeterministically, except where git's own state    *)
(* decides it (a checkout or a merge while a conflicted merge is in        *)
(* progress fails).                                                        *)
(***************************************************************************)
EXTENDS Integers, Sequences, FiniteSets, TLC

(* ---- bounds of the model ---- *)
\* most eligible pull requests the hosting API returns
MaxPRs == 3
\* most trial commands of one run whose outcome is chosen to be a non-success
\* (a merge stopping on a conflict, a failing checkout -b / checkout / branch -D);
\* failures that git's state forces are not counted
MaxFaults == 2
\* largest list index and pull-request number for which branch names are compared
MaxIndex == 11

(* ---- inputs ---- *)
\* repository URLs as sequences of tokens; "/" is the separator character,
\* ".git" the four-character suffix, any other token a run of other characters
RepoUrls ==
  { <<"https:", "/", "/", "github.com", "/", "owner", "/", "repo">>,
    <<"https:", "/", "/", "github.com", "/", "owner", "/", "repo", ".git">>,
    <<"https:", "/", "/", "github.com", "/", "owner", "/", "repo", "/">>,
    <<"https:", "/", "/", "github.com", "/">>,
    <<"/", "repo">>,
    <<"repo">>,
    <<"repo", "/">>,
    <<>> }

NoBranch == "None"
DefaultBranch == "main"
\* values of --base-branch (None when the option is absent)
BaseArgs == {NoBranch, DefaultBranch}

previous_dir == "cwd"
temp_dir == "temp_dir"

VARIABLES
  pc,               \* position of main / detect_conflicts
  owner_repo,       \* (owner, repo) returned by get_repo_info
  base_branch,      \* main's base_branch
  prs,              \* the candidates returned by get_open_prs
  fetched,          \* number of candidates fetched so far (loop of fetch_pr_branches)
  i, j,             \* loop indices of detect_conflicts (0-based)
  row,              \* row under construction
  conflict_matrix,  \* rows appended so far
  returned,         \* detect_conflicts has returned conflict_matrix to main
  rendered,         \* visualize_conflicts has saved conflict_matrix.png
  cwd,              \* process working directory
  head,             \* git: checked-out branch of the working repository
  merging,          \* git: a conflicted merge is in progress (MERGE_HEAD, unmerged index)
  refs,             \* git: local branches |-> set of PR numbers merged into them
  faults,           \* number of non-success outcomes chosen inside trials
  history           \* every git command invoked so far, in order, with its result

vars == <<pc, owner_repo, base_branch, prs, fetched, i, j, row, conflict_matrix,
          returned, rendered, cwd, head, merging, refs, faults, history>>

(* ---- pure helpers ---- *)
Last(s) == s[Len(s)]
ButLast(s) == SubSeq(s, 1, Len(s) - 1)

\* str.split('/') on a token sequence: the runs between separators, empty runs kept
RECURSIVE split(_)
split(s) ==
  IF \A k \in 1..Len(s) : s[k] # "/"
  THEN <<s>>
  ELSE LET p == CHOOSE k \in 1..Len(s) : s[k] = "/" /\ \A m \in 1..(k-1) : s[m] # "/"
       IN <<SubSeq(s, 1, p - 1)>> \o split(SubSeq(s, p + 1, Len(s)))

strip_git(url) == IF Len(url) > 0 /\ Last(url) = ".git" THEN ButLast(url) ELSE url
strip_slash(url) == IF Len(url) > 0 /\ Last(url) = "/" THEN ButLast(url) ELSE url
url_parts(url) == split(strip_slash(strip_git(url)))
url_invalid(url) == Len(url_parts(url)) < 2
get_repo_info(url) ==
  LET parts == url_parts(url)
  IN <<parts[Len(parts) - 1], parts[Len(parts)]>>

\* a pull request as the hosting API reports it
PR(number, draft, base_ref, mergeable) ==
  [number |-> number, draft |-> draft, base_ref |-> base_ref, mergeable |-> mergeable]

\* the head of a pull request: pr.head.repo.full_name, pr.head.repo.clone_url,
\* pr.head.ref, next to pr.base.repo.full_name
BaseRepo == "owner/repo"
WithHead(pr, full_name, clone_url, ref) ==
  pr @@ [head_repo |-> full_name, head_clone_url |-> clone_url, head_ref |-> ref,
         base_repo |-> BaseRepo]
\* pull requests with an odd number come from a fork, the others from a branch
\* of the base repository
FromForkOrBranch(pr) ==
  IF pr.number % 2 = 1
  THEN WithHead(pr, "forker/repo", "https://github.com/forker/repo.git",
                "patch_" \o ToString(pr.number))
  ELSE WithHead(pr, BaseRepo, "https://github.com/owner/repo.git",
                "feature_" \o ToString(pr.number))

\* the eligible pull requests #10, #11, ... of a repository, then one that the
\* filter of get_open_prs may have to drop
Eligible(n, base) == [k \in 1..n |-> FromForkOrBranch(PR(9 + k, FALSE, base, "True"))]
Tails(n, base) ==
  { <<>>,
    <<FromForkOrBranch(PR(10 + n, TRUE, base, "True"))>>,
    <<FromForkOrBranch(PR(10 + n, FALSE, "other", "True"))>>,
    <<FromForkOrBranch(PR(10 + n, FALSE, base, "False"))>> }
OpenPulls(base) ==
  UNION { { Eligible(n, base) \o t : t \in Tails(n, base) } : n \in 0..MaxPRs }

RECURSIVE filtered_prs(_, _)
filtered_prs(pulls, base) ==
  IF pulls = <<>> THEN <<>>
  ELSE LET pr == Head(pulls)
           rest == filtered_prs(Tail(pulls), base)
       IN IF pr.draft THEN rest
          ELSE IF base # NoBranch /\ pr.base_ref # base THEN rest
          ELSE IF pr.mergeable = "False" THEN rest
          ELSE <<pr>> \o rest

get_branch_name(pr) == "PR_" \o ToString(pr.number)
\* temp_branch with the two indices written without the separating underscore
temp_branch_NoSeparator(a, b) == "temp_conflict_check_" \o ToString(a) \o ToString(b)
temp_branch(a, b) == "temp_conflict_check_" \o ToString(a) \o "_" \o ToString(b)

\* subprocess.run(...).returncode of a result
returncode(result) == IF result \in {"ok", "clean"} THEN 0 ELSE 1

Cmd(cmd, ref, trial, result) ==
  [cmd |-> cmd, ref |-> ref, trial |-> trial, result |-> result]
NoTrial == <<>>

n == Len(prs)

(* ---- initial state: main() entered, nothing run yet ---- *)
Init ==
  /\ pc = "get_repo_info"
  /\ owner_repo = <<>>
  /\ base_branch = NoBranch
  /\ prs = <<>>
  /\ fetched = 0
  /\ i = 0
  /\ j = 0
  /\ row = <<>>
  /\ conflict_matrix = <<>>
  /\ returned = FALSE
  /\ rendered = FALSE
  /\ cwd = previous_dir
  /\ head = NoBranch
  /\ merging = FALSE
  /\ refs = [b \in {} |-> {}]
  /\ faults = 0
  /\ history = <<>>

gitvars == <<head, merging, refs>>
loopvars == <<i, j, row, conflict_matrix>>

(* ---- main(), lines 207-237 ---- *)
GetRepoInfo ==
  /\ pc = "get_repo_info"
  /\ \E url \in RepoUrls :
       IF url_invalid(url)
       THEN pc' = "error" /\ UNCHANGED owner_repo
       ELSE pc' = "clone" /\ owner_repo' = get_repo_info(url)
  /\ UNCHANGED <<base_branch, prs, fetched, loopvars, returned, rendered, cwd,
                 gitvars, faults, history>>

Log(cmd, ref, trial, result) == history' = Append(history, Cmd(cmd, ref, trial, result))

CloneRepo ==
  /\ pc = "clone"
  /\ \E result \in {"ok", "fail"} :
       /\ Log("clone", "", NoTrial, result)
       /\ IF result = "ok"
          THEN /\ pc' = "base"
               /\ head' = DefaultBranch
               /\ refs' = [b \in {DefaultBranch} |-> {}]
          ELSE /\ pc' = "error"
               /\ UNCHANGED <<head, refs>>
  /\ UNCHANGED <<owner_repo, base_branch, prs, fetched, loopvars, returned, rendered,
                 cwd, merging, faults>>

\* lines 223-228, with get_default_branch (199-205) when --base-branch is absent
DetermineBase ==
  /\ pc = "base"
  /\ \E arg \in BaseArgs :
       IF arg # NoBranch
       THEN pc' = "get_open_prs" /\ base_branch' = arg /\ UNCHANGED history
       ELSE \E result \in {"ok", "fail"} :
              /\ Log("symbolic-ref", "refs/remotes/origin/HEAD", NoTrial, result)
              /\ IF result = "ok"
                 THEN pc' = "get_open_prs" /\ base_branch' = DefaultBranch
                 ELSE pc' = "error" /\ UNCHANGED base_branch
  /\ UNCHANGED <<owner_repo, prs, fetched, loopvars, returned, rendered, cwd,
                 gitvars, faults>>

\* line 64 looks the repository up as "<owner>/<repo>": the hosting API has no
\* repository with an empty owner or name, so that lookup can only raise
GetOpenPrs ==
  /\ pc = "get_open_prs"
  /\ \/ /\ owner_repo[1] # <<>> /\ owner_repo[2] # <<>>
        /\ \E pulls \in OpenPulls(base_branch) :
             /\ prs' = filtered_prs(pulls, base_branch)
             /\ pc' = "check"
     \/ pc' = "error" /\ UNCHANGED prs
  /\ UNCHANGED <<owner_repo, base_branch, fetched, loopvars, returned, rendered, cwd,
                 gitvars, faults, history>>

\* CheckCount with the minimum taken as one candidate (len(prs) < 1)
CheckCount_MinimumOne ==
  /\ pc = "check"
  /\ pc' = IF n < 1 THEN "done" ELSE "detect"
  /\ UNCHANGED <<owner_repo, base_branch, prs, fetched, loopvars, returned, rendered,
                 cwd, gitvars, faults, history>>

\* lines 235-241
CheckCount ==
  /\ pc = "check"
  /\ pc' = IF n < 2 THEN "done" ELSE "detect"
  /\ UNCHANGED <<owner_repo, base_branch, prs, fetched, loopvars, returned, rendered,
                 cwd, gitvars, faults, history>>

(* ---- fetch_pr_branches, lines 94-110, called at line 121 ---- *)
EnterFetch ==
  /\ pc = "detect"
  /\ pc' = "fetch"
  /\ cwd' = temp_dir
  /\ UNCHANGED <<owner_repo, base_branch, prs, fetched, loopvars, returned, rendered,
                 gitvars, faults, history>>

\* fetch_args with every candidate fetched from origin, forks included
fetch_args_OriginOnly(pr, local_branch) ==
  "origin" \o " " \o pr.head_ref \o ":" \o local_branch

\* lines 102-110: the remote and the refspec handed to git fetch
fetch_args(pr, local_branch) ==
  IF pr.head_repo # pr.base_repo
  THEN LET fork_url == pr.head_clone_url
       IN fork_url \o " " \o pr.head_ref \o ":" \o local_branch
  ELSE "origin" \o " " \o pr.head_ref \o ":" \o local_branch

\* FetchBranch with the fetch run unchecked (check=False): a failed fetch is
\* passed over and the loop goes on to the next candidate
FetchBranch_Unchecked ==
  /\ pc = "fetch"
  /\ fetched < n
  /\ LET pr == prs[fetched + 1]
         local_branch == "PR_" \o ToString(pr.number)
     IN \E result \in {"ok", "fail"} :
          /\ Log("fetch", fetch_args(pr, local_branch), NoTrial, result)
          /\ refs' = IF result = "ok"
                     THEN [b \in DOMAIN refs \cup {local_branch} |->
                             IF b = local_branch THEN {pr.number} ELSE refs[b]]
                     ELSE refs
          /\ fetched' = fetched + 1
          /\ UNCHANGED <<pc, cwd>>
  /\ UNCHANGED <<owner_repo, base_branch, prs, loopvars, returned, rendered,
                 head, merging, faults>>

\* lines 97-110: one iteration of the loop, the fetch run with check=True
FetchBranch ==
  /\ pc = "fetch"
  /\ fetched < n
  /\ LET pr == prs[fetched + 1]
         local_branch == "PR_" \o ToString(pr.number)
     IN \E result \in {"ok", "fail"} :
          /\ Log("fetch", fetch_args(pr, local_branch), NoTrial, result)
          /\ IF result = "ok"
             THEN /\ refs' = [b \in DOMAIN refs \cup {local_branch} |->
                                IF b = local_branch THEN {pr.number} ELSE refs[b]]
                  /\ fetched' = fetched + 1
                  /\ UNCHANGED <<pc, cwd>>
             ELSE /\ pc' = "error"
                  /\ cwd' = previous_dir
                  /\ UNCHANGED <<refs, fetched>>
  /\ UNCHANGED <<owner_repo, base_branch, prs, loopvars, returned, rendered,
                 head, merging, faults>>

LeaveFetch ==
  /\ pc = "fetch"
  /\ fetched = n
  /\ pc' = "loop"
  /\ cwd' = previous_dir
  /\ UNCHANGED <<owner_repo, base_branch, prs, fetched, loopvars, returned, rendered,
                 gitvars, faults, history>>

(* ---- detect_conflicts, lines 123-170 ---- *)
\* a non-success outcome may still be chosen
MayFail == faults < MaxFaults

\* Except after a pushd without try/finally: the exception skips os.chdir(previous_dir)
Except_NoRestore(r) ==
  /\ row' = Append(r, TRUE)
  /\ cwd' = cwd
  /\ j' = j + 1
  /\ pc' = "loop"

\* Except leaving the inner loop (break) after recording the failure
Except_Break(r) ==
  /\ row' = Append(r, TRUE)
  /\ cwd' = previous_dir
  /\ j' = n
  /\ pc' = "loop"

\* the except clause of lines 165-166, after pushd's finally (line 34)
Except(r) ==
  /\ row' = Append(r, TRUE)
  /\ cwd' = previous_dir
  /\ j' = j + 1
  /\ pc' = "loop"

\* results git merge can give in the current state of the working repository:
\* with a merge in progress it refuses ("error", nothing changes); otherwise it
\* ends clean or stops on a conflict, leaving the merge in progress
MergeResults ==
  IF merging THEN {"error"}
  ELSE {"clean"} \cup (IF MayFail THEN {"conflict"} ELSE {})

\* effect of `git merge branch` ending with result
GitMerge(branch, result) ==
  /\ merging' = (merging \/ result = "conflict")
  /\ refs' = IF result = "clean"
             THEN [refs EXCEPT ![head] = refs[head] \cup refs[branch]]
             ELSE refs
  /\ faults' = IF result # "clean" /\ ~merging THEN faults + 1 ELSE faults
  /\ UNCHANGED head

\* lines 126-128
Diagonal ==
  /\ pc = "loop"
  /\ i < n /\ j < n
  /\ i = j
  /\ row' = Append(row, FALSE)
  /\ j' = j + 1
  /\ UNCHANGED <<pc, owner_repo, base_branch, prs, fetched, i, conflict_matrix,
                 returned, rendered, cwd, gitvars, faults, history>>

\* MergeAbort without the git merge --abort: the merge state is left as found
MergeAbort_Skipped ==
  /\ pc = "loop"
  /\ i < n /\ j < n
  /\ i # j
  /\ cwd' = temp_dir
  /\ pc' = "create"
  /\ UNCHANGED <<owner_repo, base_branch, prs, fetched, loopvars, returned, rendered,
                 head, merging, refs, faults, history>>

\* lines 131-141: the trial starts, pushd, git merge --abort
MergeAbort ==
  /\ pc = "loop"
  /\ i < n /\ j < n
  /\ i # j
  /\ cwd' = temp_dir
  /\ Log("merge --abort", "", <<i, j>>, IF merging THEN "ok" ELSE "fail")
  /\ merging' = FALSE
  /\ pc' = "create"
  /\ UNCHANGED <<owner_repo, base_branch, prs, fetched, loopvars, returned, rendered,
                 head, refs, faults>>

\* CreateTemp with the branch creation run unchecked (check=False): after a
\* failed git checkout -b the trial goes on to the merges on whatever is checked out
CreateTemp_Unchecked ==
  /\ pc = "create"
  /\ LET temp == temp_branch(i, j)
         base == prs[i + 1].base_ref
         forced == temp \in DOMAIN refs \/ base \notin DOMAIN refs
     IN \E result \in (IF forced THEN {} ELSE {"ok"})
                        \cup (IF forced \/ MayFail THEN {"fail"} ELSE {}) :
          /\ Log("checkout -b", temp, <<i, j>>, result)
          /\ IF result = "ok"
             THEN /\ head' = temp
                  /\ refs' = [b \in DOMAIN refs \cup {temp} |->
                                IF b = temp THEN refs[base] ELSE refs[b]]
                  /\ UNCHANGED faults
             ELSE /\ faults' = IF forced THEN faults ELSE faults + 1
                  /\ UNCHANGED <<head, refs>>
  /\ pc' = "merge1"
  /\ UNCHANGED <<owner_repo, base_branch, prs, fetched, loopvars, returned,
                 rendered, cwd, merging>>

\* lines 144-145: git checkout -b temp_branch pr1.base.ref, check=True
CreateTemp ==
  /\ pc = "create"
  /\ LET temp == temp_branch(i, j)
         base == prs[i + 1].base_ref
         forced == temp \in DOMAIN refs \/ base \notin DOMAIN refs
     IN \E result \in (IF forced THEN {} ELSE {"ok"})
                        \cup (IF forced \/ MayFail THEN {"fail"} ELSE {}) :
          /\ Log("checkout -b", temp, <<i, j>>, result)
          /\ IF result = "ok"
             THEN /\ head' = temp
                  /\ refs' = [b \in DOMAIN refs \cup {temp} |->
                                IF b = temp THEN refs[base] ELSE refs[b]]
                  /\ pc' = "merge1"
                  /\ UNCHANGED <<row, cwd, j, faults>>
             ELSE /\ Except(row)
                  /\ faults' = IF forced THEN faults ELSE faults + 1
                  /\ UNCHANGED <<head, refs>>
  /\ UNCHANGED <<owner_repo, base_branch, prs, fetched, i, conflict_matrix, returned,
                 rendered, merging>>

\* lines 148-149: git merge branch1, result unused
Merge1 ==
  /\ pc = "merge1"
  /\ LET branch1 == get_branch_name(prs[i + 1])
     IN \E result \in MergeResults :
          /\ Log("merge", branch1, <<i, j>>, result)
          /\ GitMerge(branch1, result)
  /\ pc' = "merge2"
  /\ UNCHANGED <<owner_repo, base_branch, prs, fetched, loopvars, returned, rendered,
                 cwd>>

\* lines 152-157: git merge branch2, then row.append(not merge_success)
Merge2 ==
  /\ pc = "merge2"
  /\ LET branch2 == get_branch_name(prs[j + 1])
     IN \E result \in MergeResults :
          /\ Log("merge", branch2, <<i, j>>, result)
          /\ GitMerge(branch2, result)
          /\ LET merge_success == returncode(result) = 0
             IN row' = Append(row, ~merge_success)
  /\ pc' = "checkout"
  /\ UNCHANGED <<owner_repo, base_branch, prs, fetched, i, j, conflict_matrix,
                 returned, rendered, cwd>>

\* lines 160-161: git checkout pr1.base.ref, check=True
CheckoutBase ==
  /\ pc = "checkout"
  /\ LET base == prs[i + 1].base_ref
     IN \E result \in (IF merging THEN {} ELSE {"ok"})
                        \cup (IF merging \/ MayFail THEN {"fail"} ELSE {}) :
          /\ Log("checkout", base, <<i, j>>, result)
          /\ IF result = "ok"
             THEN /\ head' = base
                  /\ pc' = "delete"
                  /\ UNCHANGED <<row, cwd, j, faults>>
             ELSE /\ Except(row)
                  /\ faults' = IF merging THEN faults ELSE faults + 1
                  /\ UNCHANGED head
  /\ UNCHANGED <<owner_repo, base_branch, prs, fetched, i, conflict_matrix, returned,
                 rendered, merging, refs>>

\* lines 162-163: git branch -D temp_branch, check=True; the with block ends
DeleteTemp ==
  /\ pc = "delete"
  /\ LET temp == temp_branch(i, j)
     IN \E result \in {"ok"} \cup (IF MayFail THEN {"fail"} ELSE {}) :
          /\ Log("branch -D", temp, <<i, j>>, result)
          /\ IF result = "ok"
             THEN /\ refs' = [b \in DOMAIN refs \ {temp} |-> refs[b]]
                  /\ cwd' = previous_dir
                  /\ j' = j + 1
                  /\ pc' = "loop"
                  /\ UNCHANGED <<row, faults>>
             ELSE /\ Except(row)
                  /\ faults' = faults + 1
                  /\ UNCHANGED refs
  /\ UNCHANGED <<owner_repo, base_branch, prs, fetched, i, conflict_matrix, returned,
                 rendered, head, merging>>

\* line 168, and line 124 of the next row
EndRow ==
  /\ pc = "loop"
  /\ i < n /\ j = n
  /\ conflict_matrix' = Append(conflict_matrix, row)
  /\ row' = <<>>
  /\ i' = i + 1
  /\ j' = 0
  /\ UNCHANGED <<pc, owner_repo, base_branch, prs, fetched, returned, rendered, cwd,
                 gitvars, faults, history>>

\* line 170, back in main at line 241
ReturnMatrix ==
  /\ pc = "loop"
  /\ i = n
  /\ returned' = TRUE
  /\ pc' = "visualize"
  /\ UNCHANGED <<owner_repo, base_branch, prs, fetched, loopvars, rendered, cwd,
                 gitvars, faults, history>>

\* the grid matshow can draw: n rows of n entries
Rectangular(m) == \A r \in 1..Len(m) : Len(m[r]) = Len(m[1])

\* lines 245, 172-197
Visualize ==
  /\ pc = "visualize"
  /\ IF Rectangular(conflict_matrix)
     THEN rendered' = TRUE /\ pc' = "done"
     ELSE rendered' = FALSE /\ pc' = "error"
  /\ UNCHANGED <<owner_repo, base_branch, prs, fetched, loopvars, returned, cwd,
                 gitvars, faults, history>>

Next ==
  \/ GetRepoInfo
  \/ CloneRepo
  \/ DetermineBase
  \/ GetOpenPrs
  \/ CheckCount
  \/ EnterFetch
  \/ FetchBranch
  \/ LeaveFetch
  \/ Diagonal
  \/ MergeAbort
  \/ CreateTemp
  \/ Merge1
  \/ Merge2
  \/ CheckoutBase
  \/ DeleteTemp
  \/ EndRow
  \/ ReturnMatrix
  \/ Visualize

Spec == Init /\ [][Next]_vars

\* every external command returns and the interpreter keeps running: a step
\* that can be taken is eventually taken
FairSpec == Spec /\ WF_vars(Next)

(* ---- reading the history ---- *)
Range(s) == {s[k] : k \in 1..Len(s)}
TrialCmds(t) == SelectSeq(history, LAMBDA c : c.trial = t)
TrialMerges(t) == SelectSeq(history, LAMBDA c : c.trial = t /\ c.cmd = "merge")
StartedTrials == {c.trial : c \in Range(history)} \ {NoTrial}
InTrial == pc \in {"create", "merge1", "merge2", "checkout", "delete"}
CompletedTrials == IF InTrial THEN StartedTrials \ {<<i, j>>} ELSE StartedTrials
Pairs == {t \in (0..(n - 1)) \X (0..(n - 1)) : t[1] # t[2]}
Entry(a, b) == conflict_matrix[a + 1][b + 1]
\* the second merge of trial t was invoked and did not end clean
SecondMergeNonClean(t) ==
  Len(TrialMerges(t)) = 2 /\ returncode(TrialMerges(t)[2].result) # 0
SecondMergeClean(t) ==
  Len(TrialMerges(t)) = 2 /\ returncode(TrialMerges(t)[2].result) = 0
\* the value trial t recorded for its pair: its first append to the row
Recorded(t) == IF Len(TrialMerges(t)) = 2 THEN SecondMergeNonClean(t) ELSE TRUE
InfraCmds == {"checkout -b", "checkout", "branch -D"}

(* ---- claims ---- *)

\* C1: after every completed trial the checked-out reference is the base branch,
\* no merge is in progress and the trial's temporary branch is gone, whatever the
\* outcomes of the trial's steps were.
C1_CleanAfterEveryTrial ==
  (~InTrial /\ CompletedTrials # {}) =>
    /\ head = base_branch
    /\ ~merging
    /\ \A t \in CompletedTrials : temp_branch(t[1], t[2]) \notin DOMAIN refs

\* C2: the returned matrix has exactly n rows of exactly n entries, and entry j
\* of row i is the value trial (i, j) recorded.
C2_SquareMatrixOfTrialValues ==
  returned =>
    /\ Len(conflict_matrix) = n
    /\ \A r \in 1..Len(conflict_matrix) : Len(conflict_matrix[r]) = n
    /\ \A t \in Pairs : Entry(t[1], t[2]) = Recorded(t)

\* C3: for i # j the entry [i][j] is true iff the second merge of trial (i, j)
\* was invoked and returned a non-clean result.
C3_TrueIffSecondMergeNonClean ==
  returned => \A t \in Pairs : Entry(t[1], t[2]) = SecondMergeNonClean(t)

\* C4: every diagonal entry of the returned matrix is false, and no git command
\* is ever invoked for a pair with i = j.
C4_DiagonalFalse ==
  /\ returned => \A a \in 0..(n - 1) : Entry(a, a) = FALSE
  /\ \A c \in Range(history) : c.trial # NoTrial => c.trial[1] # c.trial[2]

\* C5: a failed infrastructure step of a trial (branch creation, checkout of the
\* base, branch deletion) aborts the run and is never recorded as an entry.
C5_InfraFailureAborts ==
  (\E c \in Range(history) : c.cmd \in InfraCmds /\ c.result = "fail") =>
    /\ pc = "error"
    /\ ~returned

\* C6: when the first merge of a trial does not end clean, the second merge of
\* that trial is not attempted and no entry is recorded for the pair.
C6_FirstMergeFailureIsFatal ==
  \A t \in StartedTrials :
    (Len(TrialMerges(t)) >= 1 /\ TrialMerges(t)[1].result # "clean") =>
      /\ Len(TrialMerges(t)) = 1
      /\ ~returned

\* the scenario of C7: three candidates #10, #11, #12; the only non-clean merges
\* are the second merges of (#10,#11) and (#11,#10); a checkout fails exactly
\* when it is attempted with the conflicted merge in progress; every other
\* command succeeds
ScenarioRun ==
  /\ n = 3
  /\ \A t \in {<<0, 1>>, <<1, 0>>} : SecondMergeNonClean(t)
  /\ \A c \in Range(history) :
       /\ c.cmd = "merge" =>
            (c.result # "clean" =>
               c.trial \in {<<0, 1>>, <<1, 0>>} /\ c = TrialMerges(c.trial)[2])
       /\ c.cmd = "checkout" => (c.result = "fail" <=> c.trial \in {<<0, 1>>, <<1, 0>>})
       /\ c.cmd \in {"clone", "symbolic-ref", "fetch", "checkout -b", "branch -D"} =>
            c.result = "ok"

\* C7: in the three-candidate scenario the matrix returned in order
\* [#10, #11, #12] is [[F,T,F],[T,F,F],[F,F,F]].
C7_ScenarioMatrix ==
  (returned /\ ScenarioRun) =>
    conflict_matrix = << <<FALSE, TRUE, FALSE>>,
                         <<TRUE, FALSE, FALSE>>,
                         <<FALSE, FALSE, FALSE>> >>

\* C8 as stated: with fewer than two eligible candidates the run ends normally
\* without having invoked any git command (clone and default-branch lookup
\* included) and without a matrix.
C8_NoGitCommandAtAll ==
  (pc = "done" /\ n < 2) =>
    /\ history = <<>>
    /\ ~returned
    /\ ~rendered

\* C8 amended: with fewer than two eligible candidates the run ends normally at
\* once; the only git commands it has invoked are the clone and, when no base
\* branch was given, the default-branch lookup; no fetch, checkout, merge or
\* branch command is invoked and no matrix is produced or rendered.
C8_OnlyCloneAndLookup ==
  [][(pc = "check" /\ n < 2) =>
       /\ pc' = "done"
       /\ history' = history
       /\ \A c \in Range(history) : c.cmd \in {"clone", "symbolic-ref"}
       /\ conflict_matrix' = <<>>
       /\ ~returned'
       /\ ~rendered']_vars

C8_Witness ==
  /\ pc = "done"
  /\ n < 2
  /\ \E c \in Range(history) : c.cmd = "clone"

\* C9: once the fetch of any candidate has failed the run is aborted: the failed
\* fetch is the last git command invoked, no trial is started, no matrix is
\* returned and nothing is rendered.
C9_FetchFailureAborts ==
  (\E c \in Range(history) : c.cmd = "fetch" /\ c.result = "fail") =>
    /\ pc = "error"
    /\ Last(history).cmd = "fetch"
    /\ StartedTrials = {}
    /\ conflict_matrix = <<>>
    /\ row = <<>>
    /\ ~returned
    /\ ~rendered

C9_Witness ==
  /\ pc = "error"
  /\ fetched >= 1
  /\ Last(history).cmd = "fetch"
  /\ Last(history).result = "fail"

\* C10: in every trial (i, j) candidate i's branch is merged before candidate
\* j's, and when the oracle reports i-then-j non-clean and j-then-i clean the
\* returned matrix has [i][j] = true and [j][i] = false.
C10_DirectionalEntries ==
  /\ \A t \in StartedTrials :
       /\ Len(TrialMerges(t)) >= 1 =>
            TrialMerges(t)[1].ref = get_branch_name(prs[t[1] + 1])
       /\ Len(TrialMerges(t)) = 2 =>
            TrialMerges(t)[2].ref = get_branch_name(prs[t[2] + 1])
  /\ returned =>
       \A t \in Pairs :
         (SecondMergeNonClean(t) /\ SecondMergeClean(<<t[2], t[1]>>)) =>
           (Entry(t[1], t[2]) = TRUE /\ Entry(t[2], t[1]) = FALSE)

\* the git fetch commands invoked so far, in order
FetchCmds == SelectSeq(history, LAMBDA c : c.cmd = "fetch")
\* what the fetch of a candidate has to be: remote, then head ref : PR_<number>
ExpectedFetch(pr) ==
  LET remote == IF pr.head_repo = pr.base_repo THEN "origin" ELSE pr.head_clone_url
  IN remote \o " " \o pr.head_ref \o ":PR_" \o ToString(pr.number)
FirstTrialStarted == pc = "create" /\ Len(SelectSeq(history, LAMBDA c : c.trial # NoTrial)) = 1

\* C11: every candidate is fetched once, in list order, before any trial: from
\* the fork's clone URL when its head repository differs from the base
\* repository, from origin otherwise, into the local branch PR_<number>.
C11_FetchRemoteAndOrder ==
  /\ InTrial => fetched = n
  /\ (pc = "fetch" \/ FirstTrialStarted) =>
       /\ Len(FetchCmds) = fetched
       /\ \A k \in 1..Len(FetchCmds) :
            /\ FetchCmds[k].ref = ExpectedFetch(prs[k])
            /\ FetchCmds[k].result = "ok"
            /\ ("PR_" \o ToString(prs[k].number)) \in DOMAIN refs
  /\ FirstTrialStarted => Len(FetchCmds) = n

C11_Witness ==
  /\ FirstTrialStarted
  /\ \E k \in 1..n : prs[k].head_repo # prs[k].base_repo
  /\ \E k \in 1..n : prs[k].head_repo = prs[k].base_repo

\* the run-wide log of git invocations as the program writes it: no statement
\* of the program opens or writes a log, and the output captured by
\* subprocess.run is dropped, so the log holds no record in any state
run_log == <<>>

\* C12: every git command invoked so far has its record (command, exit status)
\* in the run-wide log, in invocation order, written before the next command.
C12_EveryCommandLogged ==
  /\ Len(run_log) = Len(history)
  /\ \A k \in 1..Len(history) :
       /\ run_log[k].cmd = history[k].cmd
       /\ run_log[k].status = returncode(history[k].result)

\* C13: when candidate i's branch is about to be merged (the temporary branch
\* was created), the checked-out reference is this trial's temporary branch, it
\* points at the commit of the base branch and no merge is in progress, however
\* the earlier trials ended.
C13_FreshBranchAtFirstMerge ==
  pc = "merge1" =>
    /\ head = temp_branch(i, j)
    /\ refs[head] = refs[prs[i + 1].base_ref]
    /\ ~merging

\* the first merge is due in a trial that found a conflicted merge in progress
\* and the temporary branch of an earlier trial still checked out
C13_Witness ==
  /\ pc = "merge1"
  /\ TrialCmds(<<i, j>>)[1].result = "ok"
  /\ \E t \in CompletedTrials : temp_branch(t[1], t[2]) \in DOMAIN refs

\* C14: the base branch and the candidates' local branches PR_<number> keep the
\* commit they had when cloned / fetched, and a merge is only ever due while the
\* checked-out reference is the current trial's temporary branch.
C14_BaseAndCandidatesUntouched ==
  /\ pc \in {"merge1", "merge2"} => head = temp_branch(i, j)
  /\ DefaultBranch \in DOMAIN refs => refs[DefaultBranch] = {}
  /\ \A k \in 1..fetched :
       get_branch_name(prs[k]) \in DOMAIN refs =>
         refs[get_branch_name(prs[k])] = {prs[k].number}

\* a second merge is due on a branch that already holds candidate i, in a run
\* in which an earlier branch creation failed and an earlier cleanup failed
C14_Witness ==
  /\ pc = "merge2"
  /\ refs[head] = {prs[i + 1].number}
  /\ \E c \in Range(history) : c.cmd = "checkout -b" /\ c.result = "fail"
  /\ \E c \in Range(history) : c.cmd \in {"checkout", "branch -D"} /\ c.result = "fail"

\* C15: branch names never collide.  For indices and numbers up to MaxIndex:
\* distinct numbers give distinct names PR_<number>, distinct ordered pairs give
\* distinct names temp_conflict_check_<i>_<j>, and no temporary name is a
\* candidate's name; and in a run the name of the branch a trial is about to
\* create never exists yet, whatever earlier trials left behind.
C15_NamesNeverCollide ==
  /\ pc = "check" =>
       LET Idx == 0..MaxIndex
           local == [c \in Idx |-> get_branch_name([number |-> c])]
           temp == [t \in Idx \X Idx |-> temp_branch(t[1], t[2])]
       IN /\ \A c \in Idx : \A d \in Idx : c # d => local[c] # local[d]
          /\ \A t \in Idx \X Idx : \A u \in Idx \X Idx : t # u => temp[t] # temp[u]
          /\ \A t \in Idx \X Idx : \A c \in Idx : temp[t] # local[c]
  /\ pc = "create" => temp_branch(i, j) \notin DOMAIN refs

\* a branch is about to be created while the temporary branch of an earlier
\* trial of the run still exists
C15_Witness ==
  /\ pc = "create"
  /\ \E t \in CompletedTrials : temp_branch(t[1], t[2]) \in DOMAIN refs

\* position of pair t in the row-major enumeration
RowMajorIndex(t) == t[1] * n + t[2]
TrialHistory == SelectSeq(history, LAMBDA c : c.trial # NoTrial)
\* the trials were started one at a time, in row-major order, each ordered
\* pair once
TrialsInRowMajorOrder ==
  LET th == TrialHistory
      starts == SelectSeq(th, LAMBDA c : c.cmd = "merge --abort")
  IN /\ {th[p].trial : p \in 1..Len(th)} = Pairs
     /\ Len(starts) = Cardinality(Pairs)
     /\ \A p \in 1..(Len(starts) - 1) :
          RowMajorIndex(starts[p].trial) < RowMajorIndex(starts[p + 1].trial)
     /\ \A p \in 1..(Len(th) - 1) :
          RowMajorIndex(th[p].trial) <= RowMajorIndex(th[p + 1].trial)

\* C16: once all fetches have succeeded detect_conflicts terminates, having
\* started exactly one trial per ordered pair i # j, in row-major order, one at
\* a time, whatever failed in the trials.
C16_AllTrialsThenReturn ==
  /\ [](returned => TrialsInRowMajorOrder)
  /\ (pc = "loop") ~> returned

\* the matrix was returned from a run with a conflicted merge and a failed
\* command in its trials
C16_Witness ==
  /\ returned
  /\ \E c \in Range(history) : c.cmd = "merge" /\ c.result = "conflict"
  /\ \E c \in Range(history) : c.cmd = "checkout -b" /\ c.result = "fail"

\* the URL handed to get_repo_info named an owner and a repository
NamesOwnerAndRepo ==
  /\ owner_repo # <<>>
  /\ owner_repo[1] # <<>>
  /\ owner_repo[2] # <<>>

\* C17: a repository URL that does not name both an owner and a repository
\* aborts the run in get_repo_info: git clone is only ever due, and git commands
\* are only ever invoked, for a URL that names both.
C17_MalformedUrlStopsBeforeGit ==
  /\ pc = "clone" => NamesOwnerAndRepo
  /\ history # <<>> => NamesOwnerAndRepo

\* positions inside a `with pushd(repo_dir)` block of fetch_pr_branches or of a trial
InPushd == pc = "fetch" \/ InTrial

\* C18: outside the pushd blocks of fetch_pr_branches and of the trials the
\* working directory is the one that was current before the block was entered,
\* whether the block ended normally or by an exception; inside it is repo_dir.
C18_WorkingDirectoryRestored ==
  /\ ~InPushd => cwd = previous_dir
  /\ InPushd => cwd = temp_dir

\* a trial has just ended by an exception of its last command
C18_Witness ==
  /\ pc = "loop"
  /\ history # <<>>
  /\ Last(history).trial # NoTrial
  /\ Last(history).result = "fail"
  /\ cwd = previous_dir
====
